---------------------------- MODULE Spec2Model ----------------------------
(***************************************************************************)
(* Model of BankAccount (bank_account_bugs.py): one account that accepts   *)
(* deposits of Money or Check objects, clears checks and pays withdrawals. *)
(*                                                                         *)
(* Amounts are Python floats.  They are modelled as binary floating-point  *)
(* numbers with a significand of Precision bits (binary64 has 53), written *)
(* as integer multiples of the smallest unit of the model: every float     *)
(* operation of the code is the exact operation followed by rounding to    *)
(* the nearest representable number, ties to even.                         *)
(***************************************************************************)
EXTENDS Integers, Sequences, FiniteSets

\* the private fields of the account (self.__name, self.__balance, ...) and
\* a record of the last call made on it
VARIABLES self_name, self_balance, self_min_balance, self_pending_checks,
          self_deposited_checks, last

vars == <<self_name, self_balance, self_min_balance, self_pending_checks,
          self_deposited_checks, last>>

(***************************************************************************)
(* Bounds of the model.                                                    *)
(***************************************************************************)
\* bits of significand of a float of the model
Precision == 3
\* deposits are explored while the balance stays within this amount
MaxBalance == 14
\* largest min_balance argument given to the constructor
MaxMinBalance == 3

(***************************************************************************)
(* Bug selection (lines 9-35).  TESTCASE is read from the environment by   *)
(* the constructor, default 0: no defect is selected.                      *)
(***************************************************************************)
BUG_CANT_WITHDRAW_AVAILABLE == 1
BUG_WITHDRAW_FAILS_SILENTLY == 2
BUG_DEPOSIT_ZERO == 3
BUG_CLEAR_ANY_CHECK == 4
BUG_DUPLICATE_CHECK == 5
BUG_DEPOSIT_ANY_PAYEE == 6
BUG_BALANCE_EXCLUDES_HOLDS == 7
NO_DEFECTS == 8
BUG_AVAILABLE_BALANCE == 9
BUG_MINIMUM_IS_IGNORED == 10
TESTCASE == 0

\* the defects of the catalogue, each selected in place of TESTCASE
bug_AVAILABLE_BALANCE(index) == index = BUG_AVAILABLE_BALANCE
bug_WITHDRAW_FAILS_SILENTLY(index) == index = BUG_WITHDRAW_FAILS_SILENTLY
bug_BALANCE_EXCLUDES_HOLDS(index) == index = BUG_BALANCE_EXCLUDES_HOLDS
bug_DUPLICATE_CHECK(index) == index = BUG_DUPLICATE_CHECK
bug_DEPOSIT_ANY_PAYEE(index) == index = BUG_DEPOSIT_ANY_PAYEE
bug_CLEAR_ANY_CHECK(index) == index = BUG_CLEAR_ANY_CHECK
bug_DEPOSIT_ZERO(index) == index = BUG_DEPOSIT_ZERO

bug(index) == index = TESTCASE

(***************************************************************************)
(* Float arithmetic.                                                       *)
(***************************************************************************)
Max(a, b) == IF a > b THEN a ELSE b

RECURSIVE Pow2(_)
Pow2(n) == IF n = 0 THEN 1 ELSE 2 * Pow2(n - 1)

\* the exponent of the unit in the last place of x >= 0
RECURSIVE Exponent(_)
Exponent(x) == IF x < Pow2(Precision) THEN 0 ELSE 1 + Exponent(x \div 2)

\* x >= 0 rounded to Precision significant bits, ties to even
RoundNat(x) ==
    LET u == Pow2(Exponent(x))
        q == x \div u
        r == x % u
    IN  IF 2 * r < u THEN q * u
        ELSE IF 2 * r > u THEN (q + 1) * u
        ELSE IF q % 2 = 0 THEN q * u
        ELSE (q + 1) * u

\* float(x): the float nearest to the number x
Float(x) == IF x >= 0 THEN RoundNat(x) ELSE 0 - RoundNat(0 - x)

IsFloat(x) == Float(x) = x

\* a + b and a - b on floats
FAdd(a, b) == Float(a + b)
FSub(a, b) == Float(a - b)

\* sum(seq of floats): Python's sum adds from the left, starting at 0
RECURSIVE FSum(_)
FSum(s) == IF s = <<>> THEN 0
           ELSE FAdd(FSum(SubSeq(s, 1, Len(s) - 1)), s[Len(s)])

(***************************************************************************)
(* Strings are sequences of characters, so that str.lower() is computed.   *)
(***************************************************************************)
LowerChar(c) ==
    CASE c = "A" -> "a"
      [] c = "B" -> "b"
      [] c = "O" -> "o"
      [] OTHER -> c

Lower(s) == [i \in 1..Len(s) |-> LowerChar(s[i])]

Bob == <<"B", "o", "b">>
BOB == <<"B", "O", "B">>
Alice == <<"A", "l", "i", "c", "e">>
Empty == <<>>

(***************************************************************************)
(* Money and Check values handed to the account by its caller.  A Check is *)
(* a Money with a payee and a check number that identifies it.             *)
(***************************************************************************)
Money(value) ==
    [type |-> "Money", value |-> value, payee |-> Empty, check_number |-> 0]

Check(value, payee, number) ==
    [type |-> "Check", value |-> value, payee |-> payee, check_number |-> number]

\* isinstance that takes no Money for a Check
isinstance_Check_never(money) == FALSE

isinstance_Check(money) == money.type = "Check"

\* the float values a caller deposits in cash
CashValues == {0, 1, 2, 7}

\* the checks a caller holds: payee in another case, no payee, exact payee,
\* another payee, and a check of no value for another payee
TheChecks ==
    { Check(3, BOB, 1), Check(3, Empty, 2), Check(5, Bob, 3),
      Check(2, Alice, 4), Check(0, Alice, 5) }

Deposits == {Money(v) : v \in CashValues} \cup TheChecks

\* the amounts a caller asks to withdraw: every float up to MaxBalance, and -1
Amounts == {a \in (0 - 1)..MaxBalance : IsFloat(a)}

Range(s) == {s[i] : i \in 1..Len(s)}

\* remove that drops the head of the list, whatever it is asked to drop
Remove_head(s, x) == Tail(s)

\* list.remove(x): drop the first element equal to x
RECURSIVE Remove(_, _)
Remove(s, x) ==
    IF s = <<>> THEN <<>>
    ELSE IF s[1] = x THEN Tail(s)
    ELSE <<s[1]>> \o Remove(Tail(s), x)

\* the value of a call that returns nothing
None == [type |-> "None", value |-> 0, payee |-> Empty, check_number |-> 0]

(***************************************************************************)
(* The read-only properties.                                               *)
(***************************************************************************)
account_name == self_name

min_balance == self_min_balance

\* the values of a list of checks, in list order
Values(checks) == [i \in 1..Len(checks) |-> checks[i].value]

\* AvailableOf without the floor at 0.0 of its last line
AvailableOf_unfloored(bal, pending) ==
    FSub(bal, Max(min_balance, FSum(Values(pending))))

\* available, computed on a balance and a list of pending checks
AvailableOf(bal, pending) ==
    LET sum_holds == FSum(Values(pending))
        avail == IF bug(BUG_AVAILABLE_BALANCE)
                     THEN FSub(FSub(bal, min_balance), sum_holds)
                 ELSE IF bug(BUG_MINIMUM_IS_IGNORED)
                     THEN FSub(bal, sum_holds)
                 ELSE FSub(bal, Max(min_balance, sum_holds))
    IN  IF avail > 0 THEN avail ELSE 0

available == AvailableOf(self_balance, self_pending_checks)

\* balance, computed on a balance and a list of pending checks
BalanceOf(bal, pending) ==
    LET hold_amount == IF bug(BUG_BALANCE_EXCLUDES_HOLDS)
                           THEN FSum(Values(pending))
                       ELSE 0
    IN  FSub(bal, hold_amount)

balance == BalanceOf(self_balance, self_pending_checks)

(***************************************************************************)
(* The record of a call: what was called with which argument, the          *)
(* exception it raised ("" when none) or the value it returned, and the    *)
(* fields of the account as the call found them.                           *)
(***************************************************************************)
Call(op, money, amount, raised, msg, returned) ==
    [ op |-> op, money |-> money, amount |-> amount,
      raised |-> raised, msg |-> msg, returned |-> returned,
      balance |-> self_balance,
      pending_checks |-> self_pending_checks,
      deposited_checks |-> self_deposited_checks ]

Raise(op, money, amount, raised, msg) ==
    /\ last' = Call(op, money, amount, raised, msg, None)
    /\ UNCHANGED <<self_name, self_balance, self_min_balance,
                   self_pending_checks, self_deposited_checks>>

MinBalances == 0..MaxMinBalance

\* BankAccount("Bob", m)
Init ==
    /\ self_name = Bob
    /\ self_balance = 0
    /\ self_min_balance \in {Float(m) : m \in MinBalances}
    /\ self_pending_checks = <<>>
    /\ self_deposited_checks = <<>>
    /\ last = [ op |-> "__init__", money |-> None, amount |-> 0,
                raised |-> "", msg |-> "", returned |-> None,
                balance |-> 0, pending_checks |-> <<>>,
                deposited_checks |-> <<>> ]

\* clear_check that takes the check off the record of deposited checks too
clear_check_forgets(check) ==
    IF check \in Range(self_pending_checks)
        THEN /\ self_pending_checks' = Remove(self_pending_checks, check)
             /\ self_deposited_checks' = Remove(self_deposited_checks, check)
             /\ last' = Call("clear_check", check, 0, "", "", None)
             /\ UNCHANGED <<self_name, self_balance, self_min_balance>>
    ELSE Raise("clear_check", check, 0, "CheckError",
               "Check is not an uncleared check")

clear_check(check) ==
    IF check \in Range(self_pending_checks)
        THEN /\ self_pending_checks' = Remove(self_pending_checks, check)
             /\ last' = Call("clear_check", check, 0, "", "", None)
             /\ UNCHANGED <<self_name, self_balance, self_min_balance,
                            self_deposited_checks>>
    ELSE IF ~bug(BUG_CLEAR_ANY_CHECK)
        THEN Raise("clear_check", check, 0, "CheckError",
                   "Check is not an uncleared check")
    ELSE /\ last' = Call("clear_check", check, 0, "", "", None)
         /\ UNCHANGED <<self_name, self_balance, self_min_balance,
                        self_pending_checks, self_deposited_checks>>

deposit(money) ==
    /\ FAdd(self_balance, money.value) <= MaxBalance
    /\ IF money.value <= 0 /\ ~(money.value = 0 /\ bug(BUG_DEPOSIT_ZERO))
           THEN Raise("deposit", money, 0, "ValueError",
                      "Value to deposit must be positive.")
       ELSE IF /\ isinstance_Check(money)
               /\ money.payee # Empty
               /\ Lower(money.payee) # Lower(account_name)
               /\ ~bug(BUG_DEPOSIT_ANY_PAYEE)
           THEN Raise("deposit", money, 0, "CheckError",
                      "Check payee is not account owner")
       ELSE IF /\ isinstance_Check(money)
               /\ money \in Range(self_deposited_checks)
               /\ ~bug(BUG_DUPLICATE_CHECK)
           THEN Raise("deposit", money, 0, "CheckError",
                      "Check already deposited")
       ELSE /\ IF isinstance_Check(money)
                   THEN /\ self_pending_checks' =
                               Append(self_pending_checks, money)
                        /\ self_deposited_checks' =
                               Append(self_deposited_checks, money)
                   ELSE UNCHANGED <<self_pending_checks,
                                    self_deposited_checks>>
            /\ self_balance' = FAdd(self_balance, money.value)
            /\ last' = Call("deposit", money, 0, "", "", None)
            /\ UNCHANGED <<self_name, self_min_balance>>

\* withdraw that refuses negative amounts only
withdraw_zero_allowed(amount) ==
    IF amount < 0
        THEN Raise("withdraw", None, amount, "ValueError",
                   "Amount to withdraw must be positive")
    ELSE IF amount > available
        THEN Raise("withdraw", None, amount, "ValueError",
                   "Amount exceeds available balance")
    ELSE /\ self_balance' = FSub(self_balance, amount)
         /\ last' = Call("withdraw", None, amount, "", "", Money(amount))
         /\ UNCHANGED <<self_name, self_min_balance, self_pending_checks,
                        self_deposited_checks>>

\* withdraw that pays the Money and forgets to deduct it
withdraw_not_deducted(amount) ==
    IF amount <= 0
        THEN Raise("withdraw", None, amount, "ValueError",
                   "Amount to withdraw must be positive")
    ELSE IF amount > available
        THEN Raise("withdraw", None, amount, "ValueError",
                   "Amount exceeds available balance")
    ELSE /\ last' = Call("withdraw", None, amount, "", "", Money(amount))
         /\ UNCHANGED <<self_name, self_balance, self_min_balance,
                        self_pending_checks, self_deposited_checks>>

withdraw(amount) ==
    IF amount <= 0
        THEN Raise("withdraw", None, amount, "ValueError",
                   "Amount to withdraw must be positive")
    ELSE IF amount > available
        THEN IF bug(BUG_WITHDRAW_FAILS_SILENTLY)
                 THEN /\ last' = Call("withdraw", None, amount, "", "", None)
                      /\ UNCHANGED <<self_name, self_balance,
                                     self_min_balance, self_pending_checks,
                                     self_deposited_checks>>
             ELSE Raise("withdraw", None, amount, "ValueError",
                        "Amount exceeds available balance")
    ELSE IF amount = available /\ bug(BUG_CANT_WITHDRAW_AVAILABLE)
        THEN Raise("withdraw", None, amount, "ValueError",
                   "Amount exceeds available balance")
    ELSE LET money == Money(amount)
         IN  /\ self_balance' = FSub(self_balance, amount)
             /\ last' = Call("withdraw", None, amount, "", "", money)
             /\ UNCHANGED <<self_name, self_min_balance,
                            self_pending_checks, self_deposited_checks>>

Next ==
    \/ \E money \in Deposits : deposit(money)
    \/ \E check \in TheChecks : clear_check(check)
    \/ \E amount \in Amounts : withdraw(amount)

Spec == Init /\ [][Next]_vars

(***************************************************************************)
(* The account with a Money class whose constructor can raise.  Money is   *)
(* the caller's class; withdraw builds its result "before deducting from   *)
(* balance, in case Money throws an exception" (lines 179-180).            *)
(***************************************************************************)
\* the exception of a Money constructor that fails
MoneyFailure == [raised |-> "Exception", msg |-> "Money(amount) raised"]

\* withdraw that deducts the amount before it builds the Money
withdraw_deducts_then_Money_raises(amount) ==
    /\ amount > 0
    /\ amount <= available
    /\ self_balance' = FSub(self_balance, amount)
    /\ last' = Call("withdraw", None, amount, MoneyFailure.raised,
                    MoneyFailure.msg, None)
    /\ UNCHANGED <<self_name, self_min_balance, self_pending_checks,
                   self_deposited_checks>>

\* withdraw(amount) when the amount passes both tests and Money(amount) of
\* line 181 raises: line 182 is not reached
withdraw_Money_raises(amount) ==
    /\ amount > 0
    /\ amount <= available
    /\ ~(amount = available /\ bug(BUG_CANT_WITHDRAW_AVAILABLE))
    /\ Raise("withdraw", None, amount, MoneyFailure.raised, MoneyFailure.msg)

NextMoneyRaises ==
    \/ Next
    \/ \E amount \in Amounts : withdraw_Money_raises(amount)

SpecMoneyRaises == Init /\ [][NextMoneyRaises]_vars

(***************************************************************************)
(* The account as the last call found it, and how the call ended.          *)
(***************************************************************************)
PreAvailable == AvailableOf(last.balance, last.pending_checks)
PreBalance == BalanceOf(last.balance, last.pending_checks)

Succeeded == last.raised = ""

InvalidAmount ==
    /\ last.raised = "ValueError"
    /\ last.msg \in { "Value to deposit must be positive.",
                      "Amount to withdraw must be positive" }

InsufficientFunds ==
    /\ last.raised = "ValueError"
    /\ last.msg = "Amount exceeds available balance"

CheckRejected ==
    /\ last.raised = "CheckError"
    /\ last.msg \in { "Check payee is not account owner",
                      "Check already deposited" }

CheckNotPending ==
    /\ last.raised = "CheckError"
    /\ last.msg = "Check is not an uncleared check"

Unchanged ==
    /\ self_balance = last.balance
    /\ self_pending_checks = last.pending_checks
    /\ self_deposited_checks = last.deposited_checks

SumPending == FSum(Values(self_pending_checks))

(***************************************************************************)
(* The claims.  Sums and differences of amounts are those of the account's *)
(* float arithmetic.                                                       *)
(***************************************************************************)

C2_AvailableWithinBalance ==
    /\ 0 <= available
    /\ available <= balance
    /\ self_balance >= 0

\* C2 witness: a withdrawal was refused while checks were pending and
\* min_balance exceeded the balance, so that the floor at 0 applies.
C2_Witness ==
    /\ last.op = "withdraw"
    /\ InsufficientFunds
    /\ self_balance < self_min_balance
    /\ self_pending_checks # <<>>
    /\ available = 0

\* C3: in every reachable state with funds available, withdraw(a) with a
\* exactly equal to available() succeeds and afterwards available() = 0.
C3_WithdrawAllAvailable ==
    (/\ last.op = "withdraw"
     /\ last.amount > 0
     /\ last.amount = PreAvailable)
        => (Succeeded /\ available = 0)

\* C4: withdraw(a) with a > available() fails with InsufficientFunds, pays
\* nothing and leaves total_balance, pending_checks and deposited_checks
\* as they were.
C4_OverdrawRefused ==
    (last.op = "withdraw" /\ last.amount > PreAvailable)
        => /\ InsufficientFunds
           /\ last.returned = None
           /\ Unchanged
           /\ balance = PreBalance
           /\ available = PreAvailable

\* C4 witness: funds were available and a larger amount was asked for.
C4_Witness ==
    /\ last.op = "withdraw"
    /\ PreAvailable > 0
    /\ last.amount > PreAvailable
    /\ last.raised # ""

PayeeDiffers(money) ==
    /\ money.payee # Empty
    /\ Lower(money.payee) # Lower(self_name)

\* C8: whenever deposit fails validation (zero value, payee mismatch, check
\* already deposited) it raises, and total_balance, pending_checks and
\* deposited_checks are as before the call.
C8_DepositAtomic ==
    (/\ last.op = "deposit"
     /\ \/ last.money.value = 0
        \/ last.money.type = "Check" /\ PayeeDiffers(last.money)
        \/ /\ last.money.type = "Check"
           /\ last.money \in Range(last.deposited_checks))
        => /\ ~Succeeded
           /\ Unchanged

\* C8 witness: a deposit was refused by an account that held money and a
\* pending check.
C8_Witness ==
    /\ last.op = "deposit"
    /\ ~Succeeded
    /\ last.balance > 0
    /\ last.pending_checks # <<>>

\* C9: a check deposited once is rejected with CheckRejected by every later
\* deposit, pending or cleared, and the account stays as it was; a call
\* never makes a cleared check pending again, and a check not yet deposited
\* becomes deposited only as a pending check.
C9_CheckDepositedOnce ==
    /\ (/\ last.op = "deposit"
        /\ last.money.type = "Check"
        /\ last.money \in Range(last.deposited_checks))
           => (CheckRejected /\ Unchanged)
    /\ \A c \in Range(last.deposited_checks) \ Range(last.pending_checks) :
           c \notin Range(self_pending_checks)
    /\ \A c \in Range(self_deposited_checks) \ Range(last.deposited_checks) :
           c \in Range(self_pending_checks)

\* C9 witness: a cleared check was deposited again.
C9_Witness ==
    /\ last.op = "deposit"
    /\ last.money.type = "Check"
    /\ last.money \in Range(last.deposited_checks)
    /\ last.money \notin Range(last.pending_checks)

\* C10, as claimed: a check whose payee is not empty and differs from the
\* owner's name, letter case aside, is rejected with CheckRejected and
\* balance() is unchanged; a check with no payee, or the owner as payee in
\* any letter case, is not rejected for its payee.
C10_PayeeMustBeOwner ==
    (last.op = "deposit" /\ last.money.type = "Check")
        => /\ PayeeDiffers(last.money)
                  => (CheckRejected /\ balance = PreBalance)
           /\ ~PayeeDiffers(last.money)
                  => last.msg # "Check payee is not account owner"

\* C10, amended: the same for a check of positive value (a check of value
\* zero is refused for its value before its payee is looked at).
C10_PayeeMustBeOwnerPositive ==
    (last.op = "deposit" /\ last.money.type = "Check"
         /\ last.money.value > 0)
        => /\ PayeeDiffers(last.money)
                  => (CheckRejected /\ balance = PreBalance)
           /\ ~PayeeDiffers(last.money)
                  => last.msg # "Check payee is not account owner"

\* C10 witness: a check of positive value made out to somebody else was
\* offered to an account that held money.
C10_Witness ==
    /\ last.op = "deposit"
    /\ last.money.type = "Check"
    /\ last.money.value > 0
    /\ PayeeDiffers(last.money)
    /\ last.balance > 0
    /\ CheckRejected

\* C11: clear_check(c) on a check that is not pending (never deposited, or
\* cleared already) fails with CheckNotPending and changes nothing; so a
\* check cleared once is refused when it is cleared again.
C11_ClearNotPendingRefused ==
    (last.op = "clear_check"
         /\ last.money \notin Range(last.pending_checks))
        => (CheckNotPending /\ Unchanged)

\* C11 witness: the check was deposited and cleared, and clear_check was
\* called on it a second time.
C11_Witness ==
    /\ last.op = "clear_check"
    /\ last.money \in Range(last.deposited_checks)
    /\ last.money \notin Range(last.pending_checks)
    /\ CheckNotPending

\* C12: a successful clear_check(c) removes c from pending_checks and
\* changes nothing else: total_balance, balance() and deposited_checks are
\* as before and every other pending check is still pending.
C12_ClearRemovesOnlyTheCheck ==
    (last.op = "clear_check" /\ Succeeded)
        => /\ last.money \in Range(last.pending_checks)
           /\ Range(self_pending_checks) =
                  Range(last.pending_checks) \ {last.money}
           /\ Len(self_pending_checks) = Len(last.pending_checks) - 1
           /\ self_balance = last.balance
           /\ balance = PreBalance
           /\ self_deposited_checks = last.deposited_checks

\* C12 witness: of three pending checks, one that is not the oldest was
\* cleared.
C12_Witness ==
    /\ last.op = "clear_check"
    /\ Succeeded
    /\ Len(last.pending_checks) = 3
    /\ last.money # last.pending_checks[1]

\* C13: with min_balance 0 and c, of value v, the only pending check,
\* clear_check(c) increases available() by v and leaves balance() unchanged.
C13_ClearReleasesValue ==
    (/\ last.op = "clear_check"
     /\ Succeeded
     /\ self_min_balance = 0
     /\ last.pending_checks = <<last.money>>)
        => /\ available = FAdd(PreAvailable, last.money.value)
           /\ balance = PreBalance

\* is s a prefix of t
IsPrefix(s, t) == Len(s) <= Len(t) /\ SubSeq(t, 1, Len(s)) = s

\* C14: in every reachable state each pending check is a deposited check,
\* and no call takes a check off deposited_checks.
C14_PendingAreDeposited ==
    /\ Range(self_pending_checks) \subseteq Range(self_deposited_checks)
    /\ IsPrefix(last.deposited_checks, self_deposited_checks)

\* C14 witness: a check was cleared while another stayed pending, so that
\* deposited_checks holds more than pending_checks.
C14_Witness ==
    /\ last.op = "clear_check"
    /\ Succeeded
    /\ self_pending_checks # <<>>
    /\ Len(self_deposited_checks) > Len(self_pending_checks)
    /\ last.money \in Range(self_deposited_checks)

\* would deposit(money) pass the validation of deposit in the state the
\* last call found
PassesValidation(money) ==
    /\ money.value > 0
    /\ money.type = "Check" =>
           /\ ~PayeeDiffers(money)
           /\ money \notin Range(last.deposited_checks)

\* C15: after every successful withdraw total_balance is at least
\* min_balance and at least the sum of the pending checks; a deposit that
\* passes validation and a clear_check of a pending check succeed whatever
\* the balance, also below min_balance.
C15_WithdrawKeepsReserves ==
    /\ (last.op = "withdraw" /\ Succeeded)
           => /\ self_balance >= self_min_balance
              /\ self_balance >= SumPending
    /\ (last.op = "deposit" /\ PassesValidation(last.money)) => Succeeded
    /\ (last.op = "clear_check"
            /\ last.money \in Range(last.pending_checks)) => Succeeded

\* C16: withdraw(a) with a <= 0 fails with InvalidAmount, not with
\* InsufficientFunds, in every reachable state, also when nothing is
\* available, and leaves total_balance, pending_checks and deposited_checks
\* unchanged.
C16_WithdrawAmountCheckedFirst ==
    (last.op = "withdraw" /\ last.amount <= 0)
        => /\ InvalidAmount
           /\ last.msg = "Amount to withdraw must be positive"
           /\ ~InsufficientFunds
           /\ last.returned = None
           /\ Unchanged

\* C16 witness: withdraw(0) was called on an account that held money of
\* which nothing was available.
C16_Witness ==
    /\ last.op = "withdraw"
    /\ last.amount = 0
    /\ last.balance > 0
    /\ PreAvailable = 0
    /\ InvalidAmount

\* C17: a deposit of value zero fails with InvalidAmount, for cash and for
\* checks, also for a check made out to somebody else (it is not
\* CheckRejected); the check is added to neither list.
C17_DepositValueCheckedFirst ==
    (last.op = "deposit" /\ last.money.value = 0)
        => /\ InvalidAmount
           /\ last.msg = "Value to deposit must be positive."
           /\ ~CheckRejected
           /\ Unchanged
           /\ last.money \notin Range(self_pending_checks)
           /\ last.money \notin Range(self_deposited_checks)

\* C17 witness: a check of value zero made out to somebody else was
\* offered.
C17_Witness ==
    /\ last.op = "deposit"
    /\ last.money.type = "Check"
    /\ last.money.value = 0
    /\ PayeeDiffers(last.money)
    /\ InvalidAmount

\* C18: when the construction of the Money result fails, total_balance is
\* not decreased: a withdraw that has changed total_balance has returned a
\* Money of the amount, and a withdraw that raised has changed nothing.
C18_MoneyBuiltBeforeDeducting ==
    /\ (last.op = "withdraw" /\ ~Succeeded) => Unchanged
    /\ (last.op = "withdraw" /\ self_balance # last.balance)
           => /\ last.returned.type = "Money"
              /\ last.returned.value = last.amount

\* C18 witness: the amount was available and the construction of the Money
\* failed.
C18_Witness ==
    /\ last.op = "withdraw"
    /\ last.raised = MoneyFailure.raised
    /\ 0 < last.amount
    /\ last.amount <= PreAvailable
    /\ FSub(last.balance, last.amount) # last.balance
    /\ Unchanged

\* C19: in every reachable state total_balance is at least the sum of the
\* values of the pending checks.
C19_BalanceCoversPendingChecks == self_balance >= SumPending

\* C20: no deposit and no clear_check, successful or failing, decreases
\* available().
C20_OnlyWithdrawDecreasesAvailable ==
    (last.op \in {"deposit", "clear_check"}) => available >= PreAvailable

====
